---- MODULE Spec2Model ----
(***************************************************************************)
(* Model of the JACK backend of rusty-daw-io (src/linux/jack_backend.rs):  *)
(* stream negotiation (spawn_rt_thread), the per-period real-time callback *)
(* (JackProcessHandler::process) and the notification handler              *)
(* (JackNotificationHandler).                                              *)
(*                                                                         *)
(* Names: a port name is a pair <<text, n>>.  A client port registered for *)
(* position i of bus "b" is <<"b", i>> (format!("{}_{}", bus.id, i + 1));  *)
(* a MIDI client port is <<controller id, 0>>.                             *)
(***************************************************************************)
EXTENDS Integers, Sequences, FiniteSets, TLC

(* ------------------------------ bounds --------------------------------- *)

\* Largest number of audio buses (inputs plus outputs) in a configuration.
MaxBuses == 2
\* Largest number of system ports listed by one bus.
MaxBusPorts == 2
\* Largest number of shutdown notifications the server delivers.
MaxShutdowns == 2

\* client.buffer_size(): the negotiated maximum period size (line 290).
BufferSize == 2
\* Capacity, in events, of a MidiControllerBuffer.
MidiCapacity == 2
\* Largest number of ports of one kind and direction a discovered server lists.
MaxCatalog == 3

\* client.sample_rate() (line 289).
ServerSampleRate == 48000

\* The number of values of a u16: `bus.system_ports.len() as u16` (lines 189, 224).
U16 == 65536

(* --------------------------- the environment --------------------------- *)

CapturePort(i) == <<"system:capture", i>>
PlaybackPort(i) == <<"system:playback", i>>

\* client.ports(None, "32 bit float mono audio", IS_OUTPUT): the capture ports.
SystemAudioInPorts == { CapturePort(i) : i \in 1..MaxBusPorts }
\* client.ports(None, "32 bit float mono audio", IS_INPUT): the playback ports.
SystemAudioOutPorts == { PlaybackPort(i) : i \in 1..MaxBusPorts }

\* The port a well-formed configuration lists at position i of a bus.
GoodPort(dir, i) == IF dir = "in" THEN CapturePort(i) ELSE PlaybackPort(i)
\* A port that is not among the enumerated ports of the bus's direction: at
\* position 1 a port of the opposite direction, elsewhere an unknown name.
BadPort(dir, i) ==
    IF i = 1 THEN (IF dir = "in" THEN PlaybackPort(1) ELSE CapturePort(1))
    ELSE <<"system:unplugged", i>>

\* The port lists a bus may be configured with: up to MaxBusPorts positions, each
\* holding the good or the bad port of that position.
PortLists(dir) ==
    UNION { { s \in [1..n -> { GoodPort(dir, i) : i \in 1..n } \cup { BadPort(dir, i) : i \in 1..n }] :
                \A i \in 1..n : s[i] \in { GoodPort(dir, i), BadPort(dir, i) } } :
            n \in 0..MaxBusPorts }

InBusIds == <<"in_a", "in_b", "in_c">>
OutBusIds == <<"out_a", "out_b", "out_c">>

\* Bus configurations: n buses named ids[1..n], each with a port list.
BusLists(dir, ids, n) ==
    { [ i \in 1..n |-> [id |-> ids[i], system_ports |-> ps[i]] ] :
        ps \in [1..n -> PortLists(dir)] }

MidiInControllers == << [id |-> "keys", system_port |-> <<"system:midi_capture", 1>>] >>
MidiOutControllers == << [id |-> "synth", system_port |-> <<"system:midi_playback", 1>>] >>

\* config.midi_server: None, Some("Jack") or the name of another backend.
MidiServers == { "None", "Jack", "Alsa" }

\* The configurations with n_in input buses and n_out output buses.
ConfigsOf(n_in, n_out) ==
    { [audio_in_busses |-> ins, audio_out_busses |-> outs, midi_server |-> ms,
       midi_in_controllers |-> MidiInControllers,
       midi_out_controllers |-> MidiOutControllers] :
        ins \in BusLists("in", InBusIds, n_in),
        outs \in BusLists("out", OutBusIds, n_out),
        ms \in MidiServers }

\* The configurations spawn_rt_thread is called with: up to MaxBuses buses.
LifecycleConfigs ==
    UNION { ConfigsOf(n_in, n_out) :
                <<n_in, n_out>> \in { c \in (0..MaxBuses) \X (0..MaxBuses) :
                                        c[1] + c[2] <= MaxBuses } }

(* ------------------------------- state --------------------------------- *)

VARIABLES
    config,             \* the Config handed to spawn_rt_thread
    server_reachable,   \* FALSE once jack::Client::new failed to reach the server
    pc,                 \* position of the caller's thread in spawn_rt_thread
    bus_i, port_i,      \* loop cursors of spawn_rt_thread (1-based)
    audio_in_port_names, audio_in_connected_port_names, audio_in_busses,
    audio_out_port_names, audio_out_connected_port_names, audio_out_busses,
    midi_in_port_names, midi_in_connected_port_names, midi_in_controllers,
    midi_out_port_names, midi_out_connected_port_names, midi_out_controllers,
    stream_info,        \* the StreamInfo built at line 292
    result,             \* what spawn_rt_thread returned
    init_calls,         \* invocations of rt_process_handler.init
    registered_ports,   \* server side: client ports currently registered
    connections,        \* server side: <<source, destination>> connections
    connect_log,        \* connect_ports_by_name requests, in order, with outcome
    activated,          \* the client is active: callbacks may run
    handle_held,        \* the caller holds the JackRtThreadHandle
    fatal_error_handler,\* JackNotificationHandler.fatal_error_handler
    fatal_calls,        \* invocations of fatal_stream_error
    shutdowns,          \* shutdown notifications delivered so far
    rt_pc,              \* position of the real-time thread in process()
    audio_frames,       \* the local audio_frames of process()
    audio_in_buffers, audio_out_buffers,   \* JackProcessHandler's AudioBusBuffers
    midi_in_buffers, midi_out_buffers,     \* JackProcessHandler's MidiControllerBuffers
    ps,                 \* the ProcessScope of the current period: the port buffers
    app_calls,          \* invocations of rt_process_handler.process in this callback
    rt_control,         \* what the last callback returned to the server
    app_mode,           \* what the application's process function did last
    notification,       \* the last non-fatal notification delivered, and what it returned
    audio_server_info,  \* the caller's AudioServerInfo, as refresh_audio_server left it
    midi_server_info,   \* the caller's MidiServerInfo, as refresh_midi_server left it
    refreshed           \* the last discovery call: which one, and what the server answered

audioInVars == <<audio_in_port_names, audio_in_connected_port_names, audio_in_busses>>
audioOutVars == <<audio_out_port_names, audio_out_connected_port_names, audio_out_busses>>
midiInVars == <<midi_in_port_names, midi_in_connected_port_names, midi_in_controllers>>
midiOutVars == <<midi_out_port_names, midi_out_connected_port_names, midi_out_controllers>>
negotiationVars == <<audioInVars, audioOutVars, midiInVars, midiOutVars>>
serverVars == <<registered_ports, connections, connect_log, activated, handle_held>>
notifierVars == <<fatal_error_handler, fatal_calls, shutdowns>>
spawnVars == <<pc, bus_i, port_i, negotiationVars, stream_info, result, init_calls>>
handlerVars == <<audio_in_buffers, audio_out_buffers, midi_in_buffers, midi_out_buffers>>
rtVars == <<rt_pc, audio_frames, handlerVars, ps, app_calls, rt_control, app_mode>>
discoveryVars == <<audio_server_info, midi_server_info, refreshed>>
hostVars == <<notification, discoveryVars>>
vars == <<config, server_reachable, spawnVars, serverVars, notifierVars, rtVars, hostVars>>

(* ------------------------- results and records ------------------------- *)

NoPort == <<"", 0>>
NoProcessScope == [audio_in |-> <<>>, audio_out |-> <<>>, midi_in |-> <<>>, midi_out |-> <<>>]
NoAppMode == [audio |-> "none", value |-> 0, midi |-> 0]
NoNotification == [kind |-> "none", control |-> "None"]
\* The server infos of a caller that has not run a discovery yet.
NoAudioServerInfo == [available |-> FALSE, devices |-> <<>>]
NoMidiServerInfo ==
    [available |-> FALSE, in_devices |-> <<>>, out_devices |-> <<>>, default_in_port |-> 0]
NoRefresh == [server |-> "none", reached |-> FALSE, in_ports |-> <<>>, out_ports |-> <<>>]
Pending == [tag |-> "Pending"]
\* Ok((stream_info, JackRtThreadHandle { .. })), lines 362-367.
OkResult == [tag |-> "Ok"]
\* SpawnRtThreadError::NoSystemPortsGiven(bus.id), lines 179 and 214.
NoSystemPortsGiven(bus_id) ==
    [tag |-> "Err", kind |-> "NoSystemPortsGiven", port |-> NoPort, bus |-> bus_id]
\* SpawnRtThreadError::SystemPortNotFound(system_port, bus.id), lines 193 and 228.
SystemPortNotFound(system_port, bus_id) ==
    [tag |-> "Err", kind |-> "SystemPortNotFound", port |-> system_port, bus |-> bus_id]
\* impl From<jack::Error> for SpawnRtThreadError: what every `?` on a jack call returns.
PlatformSpecific ==
    [tag |-> "Err", kind |-> "PlatformSpecific", port |-> NoPort, bus |-> ""]

\* AudioBus { id_name, id_index, system_device, system_ports, channels }.
AudioBus(bus, index) ==
    [id_name |-> bus.id, id_index |-> index, system_device |-> "Jack",
     system_ports |-> bus.system_ports, channels |-> Len(bus.system_ports) % U16]

\* MidiController { id_name, id_index, system_port }.
MidiController(controller, index) ==
    [id_name |-> controller.id, id_index |-> index, system_port |-> controller.system_port]

\* format!("{}_{}", &bus.id, i + 1) with i the 0-based position; pos is 1-based here.
UserPortName(bus, pos) == <<bus.id, pos>>
\* The client port of a MIDI controller is named after the controller.
MidiPortName(controller) == <<controller.id, 0>>

\* A bus check that never finds a bus empty.
EmptyBusUnchecked(bus) == FALSE

\* bus.system_ports.len() == 0
EmptyBus(bus) == Len(bus.system_ports) = 0

\* A check against the audio ports of both directions.
SystemPortFoundEitherDirection(dir, system_port) ==
    system_port \in SystemAudioInPorts \cup SystemAudioOutPorts

\* system_audio_in_ports.contains(&system_port), resp. system_audio_out_ports.
SystemPortFound(dir, system_port) ==
    IF dir = "in" THEN system_port \in SystemAudioInPorts
    ELSE system_port \in SystemAudioOutPorts

\* MIDI negotiated whenever the configuration names a MIDI server, whichever.
MidiServerGiven(cfg) == cfg.midi_server # "None"

\* if let Some(midi_server) = &config.midi_server { if midi_server == "Jack" {
MidiEnabled(cfg) == cfg.midi_server = "Jack"

\* A client whose ports outlive it.
DropClientLeavingPorts ==
    /\ UNCHANGED registered_ports
    /\ connections' = {}
    /\ activated' = FALSE

\* The jack client (Client or AsyncClient) goes out of scope: the client is
\* deactivated and closed, which removes its ports and their connections.
DropClient ==
    /\ registered_ports' = {}
    /\ connections' = {}
    /\ activated' = FALSE

\* An early return with an error: the locals, the client among them, are dropped.
ReturnErr(e) ==
    /\ result' = e
    /\ pc' = "returned"
    /\ DropClient

(* ------------------------------ buffers -------------------------------- *)

\* A Vec<f32>: its elements and its allocated capacity.
VecWithCapacity(capacity) == [data |-> <<>>, cap |-> capacity]

\* Vec::resize(new_len, value): truncates, or extends with value; extending past
\* the capacity reallocates.
VecResize(v, new_len, value) ==
    [data |-> [i \in 1..new_len |-> IF i <= Len(v.data) THEN v.data[i] ELSE value],
     cap |-> IF new_len > v.cap THEN new_len ELSE v.cap]

\* Vec::clear(): no elements, capacity kept.
VecClear(v) == [data |-> <<>>, cap |-> v.cap]

\* AudioBusBuffer::new(channels, max_buffer_size): one sample buffer per channel,
\* each pre-allocated to the maximum period size.
AudioBusBufferNew(channels, max_buffer_size) ==
    [channel_buffers |-> [c \in 1..channels |-> VecWithCapacity(max_buffer_size)],
     frames |-> 0]

\* AudioBusBuffer::clear_and_resize(frames): every channel cleared, then resized
\* to frames zeros.
ClearAndResize(buffer, frames) ==
    [channel_buffers |->
        [c \in 1..Len(buffer.channel_buffers) |->
            VecResize(VecClear(buffer.channel_buffers[c]), frames, 0)],
     frames |-> frames]

\* MidiControllerBuffer::new(): an empty event buffer of fixed capacity.
MidiControllerBufferNew == <<>>

\* MidiControllerBuffer::clear()
MidiClear(buffer) == <<>>

\* MidiControllerBuffer::push_raw(time, bytes): Err when the buffer is full or the
\* payload is malformed, else the event is appended.
MidiPushOk(buffer, event) == Len(buffer) < MidiCapacity /\ event.bytes # "malformed"
MidiPushRaw(buffer, event) ==
    IF MidiPushOk(buffer, event) THEN Append(buffer, event) ELSE buffer

(* --------------------------- spawn_rt_thread --------------------------- *)

\* The state before spawn_rt_thread is called with configuration cfg.
InitWith(cfg) ==
    /\ config = cfg
    /\ pc = "new_client"
    /\ bus_i = 1 /\ port_i = 1
    /\ audio_in_port_names = <<>> /\ audio_in_connected_port_names = <<>>
    /\ audio_in_busses = <<>>
    /\ audio_out_port_names = <<>> /\ audio_out_connected_port_names = <<>>
    /\ audio_out_busses = <<>>
    /\ midi_in_port_names = <<>> /\ midi_in_connected_port_names = <<>>
    /\ midi_in_controllers = <<>>
    /\ midi_out_port_names = <<>> /\ midi_out_connected_port_names = <<>>
    /\ midi_out_controllers = <<>>
    /\ stream_info = [tag |-> "None"]
    /\ result = Pending
    /\ init_calls = 0
    /\ registered_ports = {} /\ connections = {} /\ connect_log = <<>>
    /\ activated = FALSE
    /\ handle_held = FALSE
    /\ fatal_error_handler = "None"
    /\ fatal_calls = 0
    /\ shutdowns = 0
    /\ rt_pc = "idle"
    /\ audio_frames = 0
    /\ audio_in_buffers = <<>> /\ audio_out_buffers = <<>>
    /\ midi_in_buffers = <<>> /\ midi_out_buffers = <<>>
    /\ ps = NoProcessScope
    /\ app_calls = 0
    /\ rt_control = "None"
    /\ app_mode = NoAppMode
    /\ notification = NoNotification
    /\ audio_server_info = NoAudioServerInfo
    /\ midi_server_info = NoMidiServerInfo
    /\ refreshed = NoRefresh

Init ==
    /\ server_reachable = TRUE
    /\ \E cfg \in LifecycleConfigs : InitWith(cfg)

\* jack::Client::new(&client_name, ClientOptions::empty())?   (line 156)
SpawnNewClient ==
    /\ pc = "new_client"
    /\ \E reached \in BOOLEAN :
          /\ server_reachable' = reached
          /\ IF reached
             THEN /\ pc' = "audio_in_bus"
                  /\ UNCHANGED <<result, registered_ports, connections, activated>>
             ELSE ReturnErr(PlatformSpecific)
    /\ UNCHANGED <<config, hostVars, bus_i, port_i, negotiationVars, stream_info,
                   init_calls, connect_log, handle_held, notifierVars, rtVars>>

\* One iteration of `for (bus_i, bus) in config.audio_in_busses` up to its inner
\* loop (lines 177-189), or the end of that loop.
SpawnAudioInBus ==
    /\ pc = "audio_in_bus"
    /\ IF bus_i > Len(config.audio_in_busses)
       THEN /\ pc' = "audio_out_bus"
            /\ bus_i' = 1
            /\ UNCHANGED <<audio_in_busses, result, registered_ports, connections, activated>>
       ELSE LET bus == config.audio_in_busses[bus_i] IN
            IF EmptyBus(bus)
            THEN /\ ReturnErr(NoSystemPortsGiven(bus.id))
                 /\ UNCHANGED <<bus_i, audio_in_busses>>
            ELSE /\ audio_in_busses' = Append(audio_in_busses, AudioBus(bus, bus_i - 1))
                 /\ pc' = "audio_in_port"
                 /\ UNCHANGED <<bus_i, result, registered_ports, connections, activated>>
    /\ port_i' = 1
    /\ UNCHANGED <<config, hostVars, server_reachable, audio_in_port_names,
                   audio_in_connected_port_names, audioOutVars, midiInVars, midiOutVars,
                   stream_info, init_calls, connect_log, handle_held, notifierVars, rtVars>>

\* One iteration of `for (i, system_port) in bus.system_ports` of an input bus
\* (lines 191-205), or the end of that loop.  The server accepts or refuses the
\* registration (register_port(..)?).
SpawnAudioInPort ==
    /\ pc = "audio_in_port"
    /\ LET bus == config.audio_in_busses[bus_i] IN
       IF port_i > Len(bus.system_ports)
       THEN /\ pc' = "audio_in_bus"
            /\ bus_i' = bus_i + 1
            /\ UNCHANGED <<port_i, audio_in_port_names, audio_in_connected_port_names,
                           result, registered_ports, connections, activated>>
       ELSE LET system_port == bus.system_ports[port_i] IN
            IF ~SystemPortFound("in", system_port)
            THEN /\ ReturnErr(SystemPortNotFound(system_port, bus.id))
                 /\ UNCHANGED <<bus_i, port_i, audio_in_port_names,
                                audio_in_connected_port_names>>
            ELSE \E accepted \in BOOLEAN :
                 IF accepted /\ UserPortName(bus, port_i) \notin registered_ports
                 THEN /\ registered_ports' = registered_ports \cup {UserPortName(bus, port_i)}
                      /\ audio_in_port_names' =
                            Append(audio_in_port_names, UserPortName(bus, port_i))
                      /\ audio_in_connected_port_names' =
                            Append(audio_in_connected_port_names, system_port)
                      /\ port_i' = port_i + 1
                      /\ UNCHANGED <<pc, bus_i, result, connections, activated>>
                 ELSE /\ ReturnErr(PlatformSpecific)
                      /\ UNCHANGED <<bus_i, port_i, audio_in_port_names,
                                     audio_in_connected_port_names>>
    /\ UNCHANGED <<config, hostVars, server_reachable, audio_in_busses, audioOutVars, midiInVars,
                   midiOutVars, stream_info, init_calls, connect_log, handle_held,
                   notifierVars, rtVars>>

\* Lines 212-224, as SpawnAudioInBus for the output buses.
SpawnAudioOutBus ==
    /\ pc = "audio_out_bus"
    /\ IF bus_i > Len(config.audio_out_busses)
       THEN /\ pc' = "midi_in"
            /\ bus_i' = 1
            /\ UNCHANGED <<audio_out_busses, result, registered_ports, connections, activated>>
       ELSE LET bus == config.audio_out_busses[bus_i] IN
            IF EmptyBus(bus)
            THEN /\ ReturnErr(NoSystemPortsGiven(bus.id))
                 /\ UNCHANGED <<bus_i, audio_out_busses>>
            ELSE /\ audio_out_busses' = Append(audio_out_busses, AudioBus(bus, bus_i - 1))
                 /\ pc' = "audio_out_port"
                 /\ UNCHANGED <<bus_i, result, registered_ports, connections, activated>>
    /\ port_i' = 1
    /\ UNCHANGED <<config, hostVars, server_reachable, audio_out_port_names,
                   audio_out_connected_port_names, audioInVars, midiInVars, midiOutVars,
                   stream_info, init_calls, connect_log, handle_held, notifierVars, rtVars>>

\* Lines 226-240, as SpawnAudioInPort for the output buses.
SpawnAudioOutPort ==
    /\ pc = "audio_out_port"
    /\ LET bus == config.audio_out_busses[bus_i] IN
       IF port_i > Len(bus.system_ports)
       THEN /\ pc' = "audio_out_bus"
            /\ bus_i' = bus_i + 1
            /\ UNCHANGED <<port_i, audio_out_port_names, audio_out_connected_port_names,
                           result, registered_ports, connections, activated>>
       ELSE LET system_port == bus.system_ports[port_i] IN
            IF ~SystemPortFound("out", system_port)
            THEN /\ ReturnErr(SystemPortNotFound(system_port, bus.id))
                 /\ UNCHANGED <<bus_i, port_i, audio_out_port_names,
                                audio_out_connected_port_names>>
            ELSE \E accepted \in BOOLEAN :
                 IF accepted /\ UserPortName(bus, port_i) \notin registered_ports
                 THEN /\ registered_ports' = registered_ports \cup {UserPortName(bus, port_i)}
                      /\ audio_out_port_names' =
                            Append(audio_out_port_names, UserPortName(bus, port_i))
                      /\ audio_out_connected_port_names' =
                            Append(audio_out_connected_port_names, system_port)
                      /\ port_i' = port_i + 1
                      /\ UNCHANGED <<pc, bus_i, result, connections, activated>>
                 ELSE /\ ReturnErr(PlatformSpecific)
                      /\ UNCHANGED <<bus_i, port_i, audio_out_port_names,
                                     audio_out_connected_port_names>>
    /\ UNCHANGED <<config, hostVars, server_reachable, audio_out_busses, audioInVars, midiInVars,
                   midiOutVars, stream_info, init_calls, connect_log, handle_held,
                   notifierVars, rtVars>>

\* Lines 253-269: the gate on config.midi_server, then one iteration of
\* `for (controller_i, controller) in config.midi_in_controllers`, or its end.
SpawnMidiIn ==
    /\ pc = "midi_in"
    /\ IF ~MidiEnabled(config)
       THEN /\ pc' = "init"
            /\ UNCHANGED <<bus_i, midiInVars, result, registered_ports, connections, activated>>
       ELSE IF bus_i > Len(config.midi_in_controllers)
       THEN /\ pc' = "midi_out"
            /\ bus_i' = 1
            /\ UNCHANGED <<midiInVars, result, registered_ports, connections, activated>>
       ELSE LET controller == config.midi_in_controllers[bus_i] IN
            \E accepted \in BOOLEAN :
            IF accepted /\ MidiPortName(controller) \notin registered_ports
            THEN /\ midi_in_controllers' =
                      Append(midi_in_controllers, MidiController(controller, bus_i - 1))
                 /\ registered_ports' = registered_ports \cup {MidiPortName(controller)}
                 /\ midi_in_port_names' = Append(midi_in_port_names, MidiPortName(controller))
                 /\ midi_in_connected_port_names' =
                      Append(midi_in_connected_port_names, controller.system_port)
                 /\ bus_i' = bus_i + 1
                 /\ UNCHANGED <<pc, result, connections, activated>>
            ELSE /\ ReturnErr(PlatformSpecific)
                 /\ UNCHANGED <<bus_i, midiInVars>>
    /\ UNCHANGED <<config, hostVars, server_reachable, port_i, audioInVars, audioOutVars, midiOutVars,
                   stream_info, init_calls, connect_log, handle_held, notifierVars, rtVars>>

\* Lines 271-285: one iteration of `for .. in config.midi_out_controllers`, or its end.
SpawnMidiOut ==
    /\ pc = "midi_out"
    /\ IF bus_i > Len(config.midi_out_controllers)
       THEN /\ pc' = "init"
            /\ UNCHANGED <<bus_i, midiOutVars, result, registered_ports, connections, activated>>
       ELSE LET controller == config.midi_out_controllers[bus_i] IN
            \E accepted \in BOOLEAN :
            IF accepted /\ MidiPortName(controller) \notin registered_ports
            THEN /\ midi_out_controllers' =
                      Append(midi_out_controllers, MidiController(controller, bus_i - 1))
                 /\ registered_ports' = registered_ports \cup {MidiPortName(controller)}
                 /\ midi_out_port_names' = Append(midi_out_port_names, MidiPortName(controller))
                 /\ midi_out_connected_port_names' =
                      Append(midi_out_connected_port_names, controller.system_port)
                 /\ bus_i' = bus_i + 1
                 /\ UNCHANGED <<pc, result, connections, activated>>
            ELSE /\ ReturnErr(PlatformSpecific)
                 /\ UNCHANGED <<bus_i, midiOutVars>>
    /\ UNCHANGED <<config, hostVars, server_reachable, port_i, audioInVars, audioOutVars, midiInVars,
                   stream_info, init_calls, connect_log, handle_held, notifierVars, rtVars>>

\* StreamInfo { server_name, audio_in, audio_out, midi_in, midi_out, sample_rate,
\* max_audio_buffer_size }, lines 289-300.
StreamInfo(ins, outs, mins, mouts) ==
    [tag |-> "Some", server_name |-> "Jack", audio_in |-> ins, audio_out |-> outs,
     midi_in |-> mins, midi_out |-> mouts, sample_rate |-> ServerSampleRate,
     max_audio_buffer_size |-> BufferSize]

\* JackProcessHandler::new, lines 399-417: one AudioBusBuffer per bus of the
\* StreamInfo and one MidiControllerBuffer per controller.
NewAudioBuffers(busses, max_audio_buffer_size) ==
    [b \in 1..Len(busses) |-> AudioBusBufferNew(busses[b].channels, max_audio_buffer_size)]

NewMidiBuffers(controllers) ==
    [c \in 1..Len(controllers) |-> MidiControllerBufferNew]

\* The StreamInfo and the JackProcessHandler built without the init hook being called.
SpawnInitDeferred ==
    /\ pc = "init"
    /\ stream_info' = StreamInfo(audio_in_busses, audio_out_busses,
                                 midi_in_controllers, midi_out_controllers)
    /\ audio_in_buffers' = NewAudioBuffers(stream_info'.audio_in, BufferSize)
    /\ audio_out_buffers' = NewAudioBuffers(stream_info'.audio_out, BufferSize)
    /\ midi_in_buffers' = NewMidiBuffers(stream_info'.midi_in)
    /\ midi_out_buffers' = NewMidiBuffers(stream_info'.midi_out)
    /\ pc' = "activate"
    /\ UNCHANGED <<config, hostVars, server_reachable, bus_i, port_i, negotiationVars,
                   result, init_calls, serverVars, notifierVars, rt_pc, audio_frames, ps,
                   app_calls, rt_control, app_mode>>

\* Lines 289-312: build the StreamInfo, call the application's init hook, build
\* the JackProcessHandler.
SpawnInit ==
    /\ pc = "init"
    /\ stream_info' = StreamInfo(audio_in_busses, audio_out_busses,
                                 midi_in_controllers, midi_out_controllers)
    /\ init_calls' = init_calls + 1
    /\ audio_in_buffers' = NewAudioBuffers(stream_info'.audio_in, BufferSize)
    /\ audio_out_buffers' = NewAudioBuffers(stream_info'.audio_out, BufferSize)
    /\ midi_in_buffers' = NewMidiBuffers(stream_info'.midi_in)
    /\ midi_out_buffers' = NewMidiBuffers(stream_info'.midi_out)
    /\ pc' = "activate"
    /\ UNCHANGED <<config, hostVars, server_reachable, bus_i, port_i, negotiationVars, result,
                   serverVars, notifierVars, rt_pc, audio_frames, ps, app_calls,
                   rt_control, app_mode>>

\* client.activate_async(JackNotificationHandler { fatal_error_handler:
\* Some(fatal_error_handler) }, process)?   (lines 317-322)
SpawnActivate ==
    /\ pc = "activate"
    /\ \E accepted \in BOOLEAN :
       IF accepted
       THEN /\ activated' = TRUE
            /\ fatal_error_handler' = "Some"
            /\ pc' = "connect_audio_in"
            /\ UNCHANGED <<result, registered_ports, connections>>
       ELSE /\ ReturnErr(PlatformSpecific)
            /\ UNCHANGED fatal_error_handler
    /\ bus_i' = 1
    /\ UNCHANGED <<config, hostVars, server_reachable, port_i, negotiationVars, stream_info,
                   init_calls, connect_log, handle_held, fatal_calls, shutdowns, rtVars>>

\* connect_ports_by_name(source, destination)?: one iteration of one of the four
\* auto-connect loops over names.iter().zip(connected) (lines 326-355), or the end
\* of that loop.  The server accepts or refuses the request; a refusal returns the
\* error, which drops the AsyncClient (the drop waits for a running callback).
SpawnConnectLoop(here, next, sources, destinations) ==
    /\ pc = here
    /\ IF bus_i > Len(sources) \/ bus_i > Len(destinations)
       THEN /\ pc' = next
            /\ bus_i' = 1
            /\ UNCHANGED <<result, registered_ports, connections, connect_log, activated>>
       ELSE \E accepted \in BOOLEAN :
            /\ connect_log' = Append(connect_log,
                    [source |-> sources[bus_i], destination |-> destinations[bus_i],
                     ok |-> accepted])
            /\ IF accepted
               THEN /\ connections' =
                          connections \cup { <<sources[bus_i], destinations[bus_i]>> }
                    /\ bus_i' = bus_i + 1
                    /\ UNCHANGED <<pc, result, registered_ports, activated>>
               ELSE /\ rt_pc = "idle"
                    /\ ReturnErr(PlatformSpecific)
                    /\ UNCHANGED bus_i
    /\ UNCHANGED <<config, hostVars, server_reachable, port_i, negotiationVars, stream_info,
                   init_calls, handle_held, notifierVars, rtVars>>

\* Lines 326-333: system port -> client input port.
SpawnConnectAudioIn ==
    SpawnConnectLoop("connect_audio_in", "connect_audio_out",
                     audio_in_connected_port_names, audio_in_port_names)

\* The output ports connected with the system port as source.
SpawnConnectAudioOutReversed ==
    SpawnConnectLoop("connect_audio_out", "connect_midi_in",
                     audio_out_connected_port_names, audio_out_port_names)

\* Lines 334-341: client output port -> system port.
SpawnConnectAudioOut ==
    SpawnConnectLoop("connect_audio_out", "connect_midi_in",
                     audio_out_port_names, audio_out_connected_port_names)

\* Lines 343-347.
SpawnConnectMidiIn ==
    SpawnConnectLoop("connect_midi_in", "connect_midi_out",
                     midi_in_connected_port_names, midi_in_port_names)

\* Lines 348-355.
SpawnConnectMidiOut ==
    SpawnConnectLoop("connect_midi_out", "return_ok",
                     midi_out_port_names, midi_out_connected_port_names)

\* Ok((stream_info, JackRtThreadHandle { _async_client: async_client })), lines 362-367.
SpawnReturnOk ==
    /\ pc = "return_ok"
    /\ result' = OkResult
    /\ handle_held' = TRUE
    /\ pc' = "returned"
    /\ UNCHANGED <<config, hostVars, server_reachable, bus_i, port_i, negotiationVars, stream_info,
                   init_calls, registered_ports, connections, connect_log, activated,
                   notifierVars, rtVars>>

\* The handle given up without its AsyncClient being dropped.
ForgetHandle ==
    /\ pc = "returned"
    /\ handle_held
    /\ rt_pc = "idle"
    /\ handle_held' = FALSE
    /\ UNCHANGED <<config, hostVars, server_reachable, spawnVars, registered_ports,
                   connections, connect_log, activated, notifierVars, rtVars>>

\* The caller releases the JackRtThreadHandle: its AsyncClient is dropped, which
\* waits for a running callback, deactivates and closes the client.
DropHandle ==
    /\ pc = "returned"
    /\ handle_held
    /\ rt_pc = "idle"
    /\ handle_held' = FALSE
    /\ DropClient
    /\ UNCHANGED <<config, hostVars, server_reachable, spawnVars, connect_log, notifierVars, rtVars>>

(* ----------------------- JackNotificationHandler ----------------------- *)

\* Reading the handler without taking it.
KeepFatalErrorHandler(handler) == handler

\* self.fatal_error_handler.take(): what the field holds afterwards.
TakeFatalErrorHandler(handler) == "None"

\* fn shutdown(&mut self, status, reason), lines 570-581.
Shutdown ==
    /\ activated
    /\ shutdowns < MaxShutdowns
    /\ shutdowns' = shutdowns + 1
    /\ IF fatal_error_handler = "Some"
       THEN /\ fatal_error_handler' = TakeFatalErrorHandler(fatal_error_handler)
            /\ fatal_calls' = fatal_calls + 1
       ELSE UNCHANGED <<fatal_error_handler, fatal_calls>>
    /\ UNCHANGED <<config, hostVars, server_reachable, spawnVars, serverVars, rtVars>>

\* The notifications other than shutdown that JackNotificationHandler handles.
NonFatalNotifications ==
    { "thread_init", "freewheel", "sample_rate", "client_registration",
      "port_registration", "port_rename", "ports_connected", "graph_reorder",
      "xrun", "latency" }

\* What each handler returns: sample_rate, port_rename, graph_reorder and xrun
\* return jack::Control::Continue; the others return nothing.
NotificationControl(kind) ==
    IF kind \in { "sample_rate", "port_rename", "graph_reorder", "xrun" }
    THEN "Continue" ELSE "Unit"

\* A handler that treats an xrun as the end of the stream.
NotifyFatalOnXrun(kind) ==
    /\ activated
    /\ notification' = [kind |-> kind, control |-> IF kind = "xrun" THEN "Quit"
                                                   ELSE NotificationControl(kind)]
    /\ IF kind = "xrun" /\ fatal_error_handler = "Some"
       THEN /\ fatal_error_handler' = "None"
            /\ fatal_calls' = fatal_calls + 1
       ELSE UNCHANGED <<fatal_error_handler, fatal_calls>>
    /\ UNCHANGED <<config, server_reachable, spawnVars, serverVars, shutdowns, rtVars,
                   discoveryVars>>

\* thread_init, freewheel, sample_rate, client_registration, port_registration,
\* port_rename, ports_connected, graph_reorder, xrun, latency (lines 566-568 and
\* 583-662): each only logs; the arguments reach nothing but the log line.
Notify(kind) ==
    /\ activated
    /\ notification' = [kind |-> kind, control |-> NotificationControl(kind)]
    /\ UNCHANGED <<config, server_reachable, spawnVars, serverVars, notifierVars, rtVars,
                   discoveryVars>>

(* ------------- refresh_audio_server and refresh_midi_server ------------ *)

\* The 0-based index of the first port of ports equal to name, else fallback:
\* `let mut d = fallback; for (i, port) in ports.iter().enumerate() { if port ==
\* name { d = i; break; } }`.
DefaultPort(ports, name, fallback) ==
    IF \E i \in 1..Len(ports) : ports[i] = name
    THEN (CHOOSE i \in 1..Len(ports) :
              ports[i] = name /\ \A j \in 1..(i - 1) : ports[j] # name) - 1
    ELSE fallback

\* A fallback of the second port whatever the number of ports.
SecondPort(count) == 1

\* 1.min(system_audio_out_ports.len() - 1)   (line 53)
DefaultOutPortRightFallback(count) == IF 1 <= count - 1 THEN 1 ELSE count - 1

\* AudioDeviceInfo { .. }, lines 62-78: Jack's one device.
AudioDeviceInfo(system_audio_in_ports, system_audio_out_ports) ==
    [name |-> "Jack Device",
     in_ports |-> system_audio_in_ports,
     out_ports |-> system_audio_out_ports,
     sample_rates |-> <<ServerSampleRate>>,
     buffer_size_range |-> [min |-> BufferSize, max |-> BufferSize],
     default_in_port |-> DefaultPort(system_audio_in_ports, <<"system:capture", 1>>, 0),
     default_out_port_left |->
        DefaultPort(system_audio_out_ports, <<"system:playback", 1>>, 0),
     default_out_port_right |->
        DefaultPort(system_audio_out_ports, <<"system:playback", 2>>,
                    DefaultOutPortRightFallback(Len(system_audio_out_ports))),
     default_sample_rate_index |-> 0,
     default_buffer_size |-> BufferSize]

\* The device list left as it was.
KeepDevices(devices) == devices

\* server.devices.clear(), server.in_devices.clear(), server.out_devices.clear()
ClearDevices(devices) == <<>>

\* A server that counts as lacking playback only when it has no audio port at all.
NoAudioPort(system_audio_in_ports, system_audio_out_ports) ==
    Len(system_audio_in_ports) = 0 /\ Len(system_audio_out_ports) = 0

\* system_audio_out_ports.len() == 0   (line 27)
NoPlayback(system_audio_in_ports, system_audio_out_ports) ==
    Len(system_audio_out_ports) = 0

\* refresh_audio_server(server), lines 9-89, as a function of the info passed in,
\* of whether jack::Client::new reached the server and of the ports it lists.
RefreshedAudioServer(server, reached, system_audio_in_ports, system_audio_out_ports) ==
    LET cleared == [server EXCEPT !.devices = ClearDevices(server.devices)] IN
    IF reached
    THEN IF NoPlayback(system_audio_in_ports, system_audio_out_ports)
         THEN [cleared EXCEPT !.available = FALSE]
         ELSE [cleared EXCEPT
                  !.devices = Append(cleared.devices,
                                     AudioDeviceInfo(system_audio_in_ports,
                                                     system_audio_out_ports)),
                  !.available = TRUE]
    ELSE [cleared EXCEPT !.available = FALSE]

RefreshAudioServer(reached, system_audio_in_ports, system_audio_out_ports) ==
    /\ pc \in {"new_client", "returned"}
    /\ audio_server_info' = RefreshedAudioServer(audio_server_info, reached,
                                                 system_audio_in_ports, system_audio_out_ports)
    /\ refreshed' = [server |-> "audio", reached |-> reached,
                     in_ports |-> system_audio_in_ports,
                     out_ports |-> system_audio_out_ports]
    /\ UNCHANGED <<config, server_reachable, spawnVars, serverVars, notifierVars, rtVars,
                   notification, midi_server_info>>

\* MidiDeviceInfo { name: system_port_name.clone() } for each port, in order.
MidiDevices(system_ports) == [i \in 1..Len(system_ports) |-> [name |-> system_ports[i]]]

\* refresh_midi_server(server), lines 91-138.
RefreshedMidiServer(server, reached, system_midi_in_ports, system_midi_out_ports) ==
    LET cleared == [server EXCEPT !.in_devices = ClearDevices(server.in_devices),
                                  !.out_devices = ClearDevices(server.out_devices)] IN
    IF reached
    THEN [cleared EXCEPT
             !.in_devices = cleared.in_devices \o MidiDevices(system_midi_in_ports),
             !.out_devices = cleared.out_devices \o MidiDevices(system_midi_out_ports),
             !.default_in_port =
                 DefaultPort(system_midi_in_ports, <<"system:midi_capture", 2>>, 0),
             !.available = TRUE]
    ELSE [cleared EXCEPT !.available = FALSE]

RefreshMidiServer(reached, system_midi_in_ports, system_midi_out_ports) ==
    /\ pc \in {"new_client", "returned"}
    /\ midi_server_info' = RefreshedMidiServer(midi_server_info, reached,
                                               system_midi_in_ports, system_midi_out_ports)
    /\ refreshed' = [server |-> "midi", reached |-> reached,
                     in_ports |-> system_midi_in_ports,
                     out_ports |-> system_midi_out_ports]
    /\ UNCHANGED <<config, server_reachable, spawnVars, serverVars, notifierVars, rtVars,
                   notification, audio_server_info>>

(* ----------------------- JackProcessHandler::process ------------------ *)

Min(a, b) == IF a <= b THEN a ELSE b

RECURSIVE ChannelsBefore(_, _)
\* The value of the cursor `port` when the loop over the bus buffers reaches
\* buffer b: the channels of the buffers before it (port += 1 per channel).
ChannelsBefore(buffers, b) ==
    IF b <= 1 THEN 0
    ELSE ChannelsBefore(buffers, b - 1) + Len(buffers[b - 1].channel_buffers)

TotalChannels(buffers) == ChannelsBefore(buffers, Len(buffers) + 1)

\* The resize without the copy.
CollectChannelNoCopy(channel, port_slice) == VecResize(channel, Len(port_slice), 0)

\* Lines 444-457 for one channel: the channel is resized to the length of the
\* port's slice and the slice is copied into it.
CollectChannel(channel, port_slice) ==
    LET resized == VecResize(channel, Len(port_slice), 0)
    IN  [data |-> [i \in 1..Len(resized.data) |-> port_slice[i]], cap |-> resized.cap]

RECURSIVE FramesAfter(_, _, _)
\* The local audio_frames once the input loop has gone through buffers 1..b:
\* the length of the slice of the last port visited (line 446), 0 before any.
FramesAfter(buffers, slices, b) ==
    IF b = 0 THEN 0
    ELSE IF Len(buffers[b].channel_buffers) = 0 THEN FramesAfter(buffers, slices, b - 1)
    ELSE Len(slices[ChannelsBefore(buffers, b + 1)])

\* Lines 441-463: every channel of every input bus buffer takes the samples of
\* the next port, in order; the buffer's frames field takes audio_frames.
CollectAudioInputs(buffers, slices) ==
    [b \in 1..Len(buffers) |->
        [channel_buffers |->
            [c \in 1..Len(buffers[b].channel_buffers) |->
                CollectChannel(buffers[b].channel_buffers[c],
                               slices[ChannelsBefore(buffers, b) + c])],
         frames |-> FramesAfter(buffers, slices, b)]]

\* The frame count taken from the input ports alone.
AudioFramesFromInputs(in_buffers, scope) ==
    FramesAfter(in_buffers, scope.audio_in, Len(in_buffers))

\* Lines 437-470: the period's frame count.
AudioFrames(in_buffers, scope) ==
    IF Len(in_buffers) = 0
    THEN (IF Len(scope.audio_out) > 0 THEN Len(scope.audio_out[1]) ELSE 0)
    ELSE FramesAfter(in_buffers, scope.audio_in, Len(in_buffers))

\* The output buffers left as the application left them.
KeepAudioOutputs(buffers, frames) == buffers

\* Lines 474-476.
ClearAudioOutputs(buffers, frames) ==
    [b \in 1..Len(buffers) |-> ClearAndResize(buffers[b], frames)]

RECURSIVE PushAll(_, _, _)
\* Lines 487-494: every event of the port is pushed; a failed push is only logged.
PushAll(buffer, events, k) ==
    IF k > Len(events) THEN buffer
    ELSE PushAll(MidiPushRaw(buffer, events[k]), events, k + 1)

\* The events pushed after those of the period before.
CollectMidiInputsNoClear(buffers, port_events) ==
    [m \in 1..Len(buffers) |->
        IF m <= Len(port_events) THEN PushAll(buffers[m], port_events[m], 1) ELSE buffers[m]]

\* Lines 480-495: over midi_in_buffers zipped with midi_in_ports.
CollectMidiInputs(buffers, port_events) ==
    [m \in 1..Len(buffers) |->
        IF m <= Len(port_events) THEN PushAll(MidiClear(buffers[m]), port_events[m], 1)
        ELSE buffers[m]]

\* Lines 499-501.
ClearMidiOutputs(buffers) == [m \in 1..Len(buffers) |-> MidiClear(buffers[m])]

\* self.audio_in_ports[port] with port past the end of the vector panics.
CollectPanics(buffers, slices) == TotalChannels(buffers) > Len(slices)

\* process(), lines 437-501: everything before the application is called, for
\* the period whose port buffers are scope; then_pc is where the callback goes on.
ProcessBeginThen(scope, then_pc) ==
    /\ activated
    /\ rt_pc = "idle"
    /\ ps' = scope
    /\ app_calls' = 0
    /\ rt_control' = "None"
    /\ IF CollectPanics(audio_in_buffers, scope.audio_in)
       THEN /\ rt_pc' = "aborted"
            /\ UNCHANGED <<audio_frames, handlerVars>>
       ELSE /\ audio_in_buffers' = CollectAudioInputs(audio_in_buffers, scope.audio_in)
            /\ audio_frames' = AudioFrames(audio_in_buffers, scope)
            /\ audio_out_buffers' = ClearAudioOutputs(audio_out_buffers, audio_frames')
            /\ midi_in_buffers' = CollectMidiInputs(midi_in_buffers, scope.midi_in)
            /\ midi_out_buffers' = ClearMidiOutputs(midi_out_buffers)
            /\ rt_pc' = then_pc
    /\ UNCHANGED <<config, hostVars, server_reachable, spawnVars, serverVars, notifierVars, app_mode>>

\* A callback that goes straight to the write-back when the stream has no bus.
ProcessBeginSkippingSilence(scope) ==
    ProcessBeginThen(scope, IF Len(audio_in_buffers) = 0 /\ Len(audio_out_buffers) = 0
                            THEN "write_back" ELSE "app")

ProcessBegin(scope) == ProcessBeginThen(scope, "app")

\* What an application's process function may do to one output channel.
AppChannel(mode, out_channel, b, c) ==
    LET n == Len(out_channel.data) IN
    CASE mode.audio = "keep" -> out_channel
      [] mode.audio = "copy" ->
            IF b <= Len(audio_in_buffers) /\ c <= Len(audio_in_buffers[b].channel_buffers)
            THEN [data |-> audio_in_buffers[b].channel_buffers[c].data,
                  cap |-> IF Len(audio_in_buffers[b].channel_buffers[c].data) > out_channel.cap
                          THEN Len(audio_in_buffers[b].channel_buffers[c].data)
                          ELSE out_channel.cap]
            ELSE out_channel
      [] mode.audio = "fill" -> [data |-> [i \in 1..n |-> mode.value], cap |-> out_channel.cap]
      [] mode.audio = "shrink" ->
            VecResize([data |-> [i \in 1..n |-> mode.value], cap |-> out_channel.cap],
                      IF n = 0 THEN 0 ELSE n - 1, mode.value)
      [] mode.audio = "grow" ->
            VecResize([data |-> [i \in 1..n |-> mode.value], cap |-> out_channel.cap],
                      n + 1, mode.value)

\* The application pushes mode.midi events into a MIDI-out buffer.
AppMidi(mode, buffer) ==
    PushAll(buffer, [k \in 1..mode.midi |-> [time |-> k - 1, bytes |-> "note"]], 1)

\* self.rt_process_handler.process(ProcessInfo { .. }), lines 503-512: the
\* application reads the inputs and writes audio_out and midi_out.
ProcessApp(mode) ==
    /\ rt_pc = "app"
    /\ app_calls' = app_calls + 1
    /\ app_mode' = mode
    /\ audio_out_buffers' =
          [b \in 1..Len(audio_out_buffers) |->
              [channel_buffers |->
                  [c \in 1..Len(audio_out_buffers[b].channel_buffers) |->
                      AppChannel(mode, audio_out_buffers[b].channel_buffers[c], b, c)],
               frames |-> audio_out_buffers[b].frames]]
    /\ midi_out_buffers' = [m \in 1..Len(midi_out_buffers) |-> AppMidi(mode, midi_out_buffers[m])]
    /\ rt_pc' = "write_back"
    /\ UNCHANGED <<config, hostVars, server_reachable, spawnVars, serverVars, notifierVars,
                   audio_frames, audio_in_buffers, midi_in_buffers, ps, rt_control>>

\* The channel's length, whatever the port's.
ChannelLen(channel_data, port_slice) == Len(channel_data)

\* let len = channel.len().min(port_slice.len());   (line 524)
CopyLen(channel_data, port_slice) == Min(Len(channel_data), Len(port_slice))

\* A write that silences the samples of the port past the copied ones.
WriteChannelZeroTail(channel_data, port_slice) ==
    [i \in 1..Len(port_slice) |->
        IF i <= CopyLen(channel_data, port_slice) THEN channel_data[i] ELSE 0]

\* &mut port_slice[0..len].copy_from_slice(&channel[0..len]);   (line 532)
WriteChannel(channel_data, port_slice) ==
    [i \in 1..Len(port_slice) |->
        IF i <= CopyLen(channel_data, port_slice) THEN channel_data[i] ELSE port_slice[i]]

\* Lines 518-536: every channel of every output bus buffer is written to the
\* next port, in order.
WriteAudioOutputs(buffers, port_slices) ==
    [p \in 1..Len(port_slices) |->
        IF \E b \in 1..Len(buffers) :
              \E c \in 1..Len(buffers[b].channel_buffers) : ChannelsBefore(buffers, b) + c = p
        THEN LET b == CHOOSE b \in 1..Len(buffers) :
                        \E c \in 1..Len(buffers[b].channel_buffers) :
                            ChannelsBefore(buffers, b) + c = p
             IN  WriteChannel(buffers[b].channel_buffers[p - ChannelsBefore(buffers, b)].data,
                              port_slices[p])
        ELSE port_slices[p]]

\* self.audio_out_ports[port] past the end of the vector, or a slice range
\* [0..len] past the end of the port slice or of the channel, panics.
WritePanics(buffers, port_slices) ==
    \/ TotalChannels(buffers) > Len(port_slices)
    \/ \E b \in 1..Len(buffers) : \E c \in 1..Len(buffers[b].channel_buffers) :
          LET p == ChannelsBefore(buffers, b) + c
              len == CopyLen(buffers[b].channel_buffers[c].data, port_slices[p])
          IN  len > Len(port_slices[p]) \/ len > Len(buffers[b].channel_buffers[c].data)

\* Lines 540-555: the events of each MIDI-out buffer are written to its port in
\* stored order; written[k] tells whether the port accepts the k-th write.
WriteMidiOutputs(buffers, ports, written) ==
    [m \in 1..Len(ports) |->
        IF m <= Len(buffers)
        THEN SelectSeq([k \in 1..Len(buffers[m]) |->
                            [time |-> buffers[m][k].time, bytes |-> buffers[m][k].bytes,
                             ok |-> written[k]]],
                       LAMBDA e : e.ok)
        ELSE ports[m]]

\* process(), lines 516-557: the outputs are written to the ports and the
\* callback returns Control::Continue.
ProcessEnd(written) ==
    /\ rt_pc = "write_back"
    /\ IF WritePanics(audio_out_buffers, ps.audio_out)
       THEN /\ rt_pc' = "aborted"
            /\ UNCHANGED <<ps, rt_control>>
       ELSE /\ ps' = [ps EXCEPT !.audio_out = WriteAudioOutputs(audio_out_buffers, ps.audio_out),
                                !.midi_out = WriteMidiOutputs(midi_out_buffers, ps.midi_out,
                                                              written)]
            /\ rt_control' = "Continue"
            /\ rt_pc' = "idle"
    /\ UNCHANGED <<config, hostVars, server_reachable, spawnVars, serverVars, notifierVars,
                   audio_frames, handlerVars, app_calls, app_mode>>

(* ------------------- what the server and the application do ------------ *)

Samples == {1, 2}

\* The events a MIDI port may deliver in one period: up to one more than a
\* controller buffer holds, each well-formed or malformed.
MidiPeriods ==
    UNION { { [k \in 1..n |-> [time |-> k - 1, bytes |-> kinds[k]]] :
                kinds \in [1..n -> {"note", "malformed"}] } : n \in 0..(MidiCapacity + 1) }

\* The samples the server delivers on one input port in a period of f frames:
\* every frame differs from its neighbours, from silence and from what another
\* base delivers (no period has more than BufferSize + 1 frames).
PortSlice(base, f) == [i \in 1..f |-> (BufferSize + 2) * base + i]

\* The ProcessScopes of a period of the current stream: every port of the client
\* has a buffer of the same frame count; an output port's buffer holds what the
\* server left in it (-1 marks such a sample).
Scopes(frame_counts, samples, midi_periods) ==
    UNION { { [audio_in |-> [p \in 1..Len(audio_in_port_names) |-> PortSlice(bases[p], f)],
               audio_out |-> [p \in 1..Len(audio_out_port_names) |-> [i \in 1..f |-> -1]],
               midi_in |-> min,
               midi_out |-> [p \in 1..Len(midi_out_port_names) |-> <<>>]] :
                bases \in [1..Len(audio_in_port_names) -> samples],
                min \in [1..Len(midi_in_port_names) -> midi_periods] } :
            f \in frame_counts }

\* Periods of every frame count up to one past the negotiated maximum.
AllScopes == Scopes(0..(BufferSize + 1), Samples, MidiPeriods)

\* Full periods of one sample value and no MIDI event.
QuietScopes == Scopes({BufferSize}, {1}, { <<>> })

\* What the application's process function may do: leave the outputs as it got
\* them, copy each input channel to the same output channel, overwrite the
\* samples, shorten or lengthen the channel buffers; and push MIDI-out events.
AppModes ==
    { [audio |-> "keep", value |-> 1, midi |-> k] :
        k \in IF Len(midi_out_buffers) = 0 THEN {0} ELSE 0..MidiCapacity }
    \cup
    { [audio |-> a, value |-> v, midi |-> k] :
        a \in IF Len(audio_out_buffers) = 0 THEN {} ELSE {"copy", "fill", "shrink", "grow"},
        v \in Samples,
        k \in IF Len(midi_out_buffers) = 0 THEN {0} ELSE 0..MidiCapacity }

QuietAppModes == { [audio |-> "keep", value |-> 1, midi |-> 0] }

\* Which writes a MIDI-out port accepts in a period.
WriteOutcomes == [1..MidiCapacity -> BOOLEAN]

\* The client ports of names that are registered on the server, in order.
SelectRegistered(names) == SelectSeq(names, LAMBDA n : n \in registered_ports)

\* client.ports(None, "32 bit float mono audio", IS_OUTPUT) on the current
\* server: the capture ports, then the output ports clients have registered.
ServerAudioSources ==
    [i \in 1..MaxBusPorts |-> CapturePort(i)] \o SelectRegistered(audio_out_port_names)
\* client.ports(None, "32 bit float mono audio", IS_INPUT).
ServerAudioSinks ==
    [i \in 1..MaxBusPorts |-> PlaybackPort(i)] \o SelectRegistered(audio_in_port_names)
\* client.ports(None, "8 bit raw midi", IS_OUTPUT).
ServerMidiSources ==
    <<MidiInControllers[1].system_port>> \o SelectRegistered(midi_out_port_names)
\* client.ports(None, "8 bit raw midi", IS_INPUT).
ServerMidiSinks ==
    <<MidiOutControllers[1].system_port>> \o SelectRegistered(midi_in_port_names)

\* The port catalogs a server may list: up to MaxCatalog of names, none twice.
Catalogs(names) ==
    UNION { { c \in [1..n -> names] : \A i, j \in 1..n : c[i] = c[j] => i = j } :
            n \in 0..MaxCatalog }

AudioInCatalogs == Catalogs({ <<"system:capture", 1>>, <<"system:capture", 2>> })
AudioOutCatalogs ==
    Catalogs({ <<"system:playback", 1>>, <<"system:playback", 2>>, <<"usb:playback", 1>> })
MidiInCatalogs == Catalogs({ <<"system:midi_capture", 1>>, <<"system:midi_capture", 2>> })
MidiOutCatalogs == Catalogs({ <<"system:midi_playback", 1>> })

(* -------------------- a stream that has been spawned ------------------- *)

RECURSIVE Flatten(_)
Flatten(seqs) == IF seqs = <<>> THEN <<>> ELSE Head(seqs) \o Flatten(Tail(seqs))

\* The client port names a successful negotiation registers for busses, in order.
ClientPortNames(busses) ==
    Flatten([b \in 1..Len(busses) |->
                [i \in 1..Len(busses[b].system_ports) |-> UserPortName(busses[b], i)]])

\* The system ports those client ports are to be connected to, in the same order.
ConnectedPortNames(busses) ==
    Flatten([b \in 1..Len(busses) |-> busses[b].system_ports])

ConnectRequests(sources, destinations) ==
    [k \in 1..Len(sources) |-> [source |-> sources[k], destination |-> destinations[k],
                                ok |-> TRUE]]

SeqRange(q) == { q[k] : k \in 1..Len(q) }

\* What spawn_rt_thread leaves behind when it returns Ok for cfg.
SpawnedNegotiation(cfg) ==
    LET mins == IF MidiEnabled(cfg) THEN cfg.midi_in_controllers ELSE <<>>
        mouts == IF MidiEnabled(cfg) THEN cfg.midi_out_controllers ELSE <<>>
    IN
    /\ config = cfg
    /\ pc = "returned" /\ bus_i = 1 /\ port_i = 1
    /\ result = OkResult
    /\ audio_in_busses =
          [b \in 1..Len(cfg.audio_in_busses) |-> AudioBus(cfg.audio_in_busses[b], b - 1)]
    /\ audio_in_port_names = ClientPortNames(cfg.audio_in_busses)
    /\ audio_in_connected_port_names = ConnectedPortNames(cfg.audio_in_busses)
    /\ audio_out_busses =
          [b \in 1..Len(cfg.audio_out_busses) |-> AudioBus(cfg.audio_out_busses[b], b - 1)]
    /\ audio_out_port_names = ClientPortNames(cfg.audio_out_busses)
    /\ audio_out_connected_port_names = ConnectedPortNames(cfg.audio_out_busses)
    /\ midi_in_controllers = [m \in 1..Len(mins) |-> MidiController(mins[m], m - 1)]
    /\ midi_in_port_names = [m \in 1..Len(mins) |-> MidiPortName(mins[m])]
    /\ midi_in_connected_port_names = [m \in 1..Len(mins) |-> mins[m].system_port]
    /\ midi_out_controllers = [m \in 1..Len(mouts) |-> MidiController(mouts[m], m - 1)]
    /\ midi_out_port_names = [m \in 1..Len(mouts) |-> MidiPortName(mouts[m])]
    /\ midi_out_connected_port_names = [m \in 1..Len(mouts) |-> mouts[m].system_port]
    /\ stream_info = StreamInfo(audio_in_busses, audio_out_busses,
                                midi_in_controllers, midi_out_controllers)
    /\ init_calls = 1
    /\ connect_log =
          ConnectRequests(audio_in_connected_port_names, audio_in_port_names)
          \o ConnectRequests(audio_out_port_names, audio_out_connected_port_names)
          \o ConnectRequests(midi_in_connected_port_names, midi_in_port_names)
          \o ConnectRequests(midi_out_port_names, midi_out_connected_port_names)

\* The stream right after spawn_rt_thread has returned Ok for cfg, before the
\* first period.
SpawnedWith(cfg) ==
    /\ SpawnedNegotiation(cfg)
    /\ registered_ports = SeqRange(audio_in_port_names) \cup SeqRange(audio_out_port_names)
                          \cup SeqRange(midi_in_port_names) \cup SeqRange(midi_out_port_names)
    /\ connections = { <<r.source, r.destination>> : r \in SeqRange(connect_log) }
    /\ activated = TRUE
    /\ handle_held = TRUE
    /\ fatal_error_handler = "Some"
    /\ fatal_calls = 0
    /\ shutdowns = 0
    /\ rt_pc = "idle"
    /\ audio_frames = 0
    /\ audio_in_buffers = NewAudioBuffers(stream_info.audio_in, BufferSize)
    /\ audio_out_buffers = NewAudioBuffers(stream_info.audio_out, BufferSize)
    /\ midi_in_buffers = NewMidiBuffers(stream_info.midi_in)
    /\ midi_out_buffers = NewMidiBuffers(stream_info.midi_out)
    /\ ps = NoProcessScope
    /\ app_calls = 0
    /\ rt_control = "None"
    /\ app_mode = NoAppMode
    /\ notification = NoNotification
    /\ audio_server_info = NoAudioServerInfo
    /\ midi_server_info = NoMidiServerInfo
    /\ refreshed = NoRefresh

\* A bus whose n system ports all exist.
GoodBus(dir, id, n) == [id |-> id, system_ports |-> [i \in 1..n |-> GoodPort(dir, i)]]

RtConfig(ins, outs, ms, mins, mouts) ==
    [audio_in_busses |-> ins, audio_out_busses |-> outs, midi_server |-> ms,
     midi_in_controllers |-> mins, midi_out_controllers |-> mouts]

\* The stream shapes the real-time callback is checked on: mono and stereo
\* duplex, several buses per direction, unequal channel counts, inputs only,
\* outputs only, MIDI only, and nothing at all.
RtConfigs ==
    { RtConfig(<<GoodBus("in", "in_a", 1)>>, <<GoodBus("out", "out_a", 1)>>, "None",
               <<>>, <<>>),
      RtConfig(<<GoodBus("in", "in_a", 2)>>, <<GoodBus("out", "out_a", 2)>>, "None",
               MidiInControllers, MidiOutControllers),
      RtConfig(<<GoodBus("in", "in_a", 1), GoodBus("in", "in_b", 1)>>,
               <<GoodBus("out", "out_a", 1), GoodBus("out", "out_b", 1)>>, "Alsa",
               MidiInControllers, MidiOutControllers),
      RtConfig(<<GoodBus("in", "in_a", 1)>>, <<GoodBus("out", "out_a", 2)>>, "None",
               <<>>, <<>>),
      RtConfig(<<GoodBus("in", "in_a", 1)>>, <<>>, "Jack", MidiInControllers, <<>>),
      RtConfig(<<>>, <<GoodBus("out", "out_a", 1)>>, "Jack", <<>>, MidiOutControllers),
      RtConfig(<<>>, <<>>, "Jack", MidiInControllers, MidiOutControllers),
      RtConfig(<<>>, <<>>, "None", <<>>, <<>>) }

(* ---------------------------- specification ---------------------------- *)

SpawnStep ==
    \/ SpawnNewClient
    \/ SpawnAudioInBus
    \/ SpawnAudioInPort
    \/ SpawnAudioOutBus
    \/ SpawnAudioOutPort
    \/ SpawnMidiIn
    \/ SpawnMidiOut
    \/ SpawnInit
    \/ SpawnActivate
    \/ SpawnConnectAudioIn
    \/ SpawnConnectAudioOut
    \/ SpawnConnectMidiIn
    \/ SpawnConnectMidiOut
    \/ SpawnReturnOk

Next ==
    \/ SpawnStep
    \/ DropHandle
    \/ Shutdown
    \/ \E scope \in QuietScopes : ProcessBegin(scope)
    \/ \E mode \in QuietAppModes : ProcessApp(mode)
    \/ ProcessEnd([k \in 1..MidiCapacity |-> TRUE])

Spec == Init /\ [][Next]_vars

\* The real-time callback on a spawned stream, with every period content and
\* every application behaviour.
InitRt ==
    /\ server_reachable = TRUE
    /\ \E cfg \in RtConfigs : SpawnedWith(cfg)

NextRt ==
    \/ \E scope \in AllScopes : ProcessBegin(scope)
    \/ \E mode \in AppModes : ProcessApp(mode)
    \/ \E written \in WriteOutcomes : ProcessEnd(written)

SpecRt == InitRt /\ [][NextRt]_vars

\* A bus that lists the first capture port once for every value of a u16: each
\* entry passes the contains check and is given a client port of its own.
WideBus == [id |-> "in_a", system_ports |-> [i \in 1..U16 |-> CapturePort(1)]]

\* The life of a spawned stream on the caller's and the server's threads: every
\* notification, shutdowns, discovery runs that see the server's current ports,
\* periods, and the release of the handle.
InitLife ==
    /\ server_reachable = TRUE
    /\ \E cfg \in RtConfigs : SpawnedWith(cfg)

NextLife ==
    \/ DropHandle
    \/ Shutdown
    \/ \E kind \in NonFatalNotifications : Notify(kind)
    \/ \E reached \in BOOLEAN :
          RefreshAudioServer(reached, ServerAudioSources, ServerAudioSinks)
    \/ \E reached \in BOOLEAN :
          RefreshMidiServer(reached, ServerMidiSources, ServerMidiSinks)
    \/ \E scope \in QuietScopes : ProcessBegin(scope)
    \/ \E mode \in QuietAppModes : ProcessApp(mode)
    \/ ProcessEnd([k \in 1..MidiCapacity |-> TRUE])

SpecLife == InitLife /\ [][NextLife]_vars

\* Discovery alone, on servers of every port catalog, run again and again on
\* the same infos.
InitDiscovery ==
    /\ server_reachable = TRUE
    /\ InitWith(RtConfig(<<>>, <<>>, "None", <<>>, <<>>))

NextDiscovery ==
    \/ \E reached \in BOOLEAN, ins \in AudioInCatalogs, outs \in AudioOutCatalogs :
          RefreshAudioServer(reached, ins, outs)
    \/ \E reached \in BOOLEAN, ins \in MidiInCatalogs, outs \in MidiOutCatalogs :
          RefreshMidiServer(reached, ins, outs)

SpecDiscovery == InitDiscovery /\ [][NextDiscovery]_vars

\* The spawned streams of SpecRt are what spawn_rt_thread produces under Spec.
SpawnedAgrees ==
    (pc = "returned" /\ result = OkResult) =>
        /\ SpawnedNegotiation(config)
        /\ handle_held =>
              /\ registered_ports =
                    SeqRange(audio_in_port_names) \cup SeqRange(audio_out_port_names)
                    \cup SeqRange(midi_in_port_names) \cup SeqRange(midi_out_port_names)
              /\ connections = { <<r.source, r.destination>> : r \in SeqRange(connect_log) }
              /\ activated
              /\ Len(audio_in_buffers) = Len(stream_info.audio_in)
              /\ Len(audio_out_buffers) = Len(stream_info.audio_out)
              /\ \A b \in 1..Len(audio_in_buffers) :
                    Len(audio_in_buffers[b].channel_buffers) = stream_info.audio_in[b].channels
              /\ \A b \in 1..Len(audio_out_buffers) :
                    Len(audio_out_buffers[b].channel_buffers) = stream_info.audio_out[b].channels
              /\ Len(midi_in_buffers) = Len(stream_info.midi_in)
              /\ Len(midi_out_buffers) = Len(stream_info.midi_out)

(* =============================== claims ================================ *)

AllClientPorts ==
    SeqRange(audio_in_port_names) \cup SeqRange(audio_out_port_names)
    \cup SeqRange(midi_in_port_names) \cup SeqRange(midi_out_port_names)

\* The buses of a configuration in the order spawn_rt_thread scans them.
ScanOrder(cfg) ==
    [k \in 1..(Len(cfg.audio_in_busses) + Len(cfg.audio_out_busses)) |->
        IF k <= Len(cfg.audio_in_busses)
        THEN [dir |-> "in", bus |-> cfg.audio_in_busses[k]]
        ELSE [dir |-> "out", bus |-> cfg.audio_out_busses[k - Len(cfg.audio_in_busses)]]]

\* system_port is not among the enumerated system ports of direction dir.
Absent(dir, system_port) ==
    (dir = "in" /\ system_port \notin { CapturePort(i) : i \in 1..MaxBusPorts })
    \/ (dir = "out" /\ system_port \notin { PlaybackPort(i) : i \in 1..MaxBusPorts })

AbsentPositions(entry) ==
    { i \in 1..Len(entry.bus.system_ports) : Absent(entry.dir, entry.bus.system_ports[i]) }

ListsNoPort(entry) == Len(entry.bus.system_ports) = 0

Offending(entry) == ListsNoPort(entry) \/ AbsentPositions(entry) # {}

\* Entry k is the first offending bus of the scan.
FirstOffending(scan, k) ==
    /\ Offending(scan[k])
    /\ \A j \in 1..(k - 1) : ~Offending(scan[j])

SmallestOf(S) == CHOOSE i \in S : \A j \in S : i <= j

(* ---- C1 ---- *)

C2_ConnectFailureOnlyReported ==
    (pc = "returned" /\ \E k \in 1..Len(connect_log) : ~connect_log[k].ok) =>
        /\ result = OkResult
        /\ handle_held =>
              /\ registered_ports = AllClientPorts
              /\ \A k \in 1..Len(connect_log) :
                    connect_log[k].ok =>
                        <<connect_log[k].source, connect_log[k].destination>> \in connections
              /\ Len(connect_log) = Cardinality(AllClientPorts)

(* ---- C3 ---- *)

\* C3 as stated: whenever the configuration holds a bus with an empty port list,
\* at any position, spawn (unless the server itself failed it) returns
\* NoSystemPortsGiven carrying the name of a bus with an empty port list, and no
\* client port is registered.
C3_AnyEmptyBusReported ==
    (pc = "returned" /\ result # PlatformSpecific
        /\ \E k \in 1..Len(ScanOrder(config)) : ListsNoPort(ScanOrder(config)[k])) =>
        /\ \E k \in 1..Len(ScanOrder(config)) :
              /\ ListsNoPort(ScanOrder(config)[k])
              /\ result = NoSystemPortsGiven(ScanOrder(config)[k].bus.id)
        /\ registered_ports = {}

\* C3 amended: when the first offending bus of the scan (input buses, then output
\* buses) has an empty port list, spawn returns NoSystemPortsGiven carrying that
\* bus's name, or the platform error if the server was unreachable or refused an
\* earlier registration; and after any error return no client port is registered.
C3_FirstEmptyBusReported ==
    pc = "returned" =>
        /\ \A k \in 1..Len(ScanOrder(config)) :
              (FirstOffending(ScanOrder(config), k) /\ ListsNoPort(ScanOrder(config)[k])) =>
                  result \in { NoSystemPortsGiven(ScanOrder(config)[k].bus.id),
                               PlatformSpecific }
        /\ result # OkResult => registered_ports = {}

\* The empty bus came after a valid bus whose ports had been registered.
C3_Witness ==
    /\ pc = "returned"
    /\ result.tag = "Err" /\ result.kind = "NoSystemPortsGiven"
    /\ Len(audio_in_port_names) > 0
    /\ result.bus = "out_a"
    /\ registered_ports = {}

(* ---- C4 ---- *)

\* C4 as stated: whenever a bus of the configuration lists a system port that is
\* absent from the ports of its direction, spawn (unless the server itself
\* failed it) returns SystemPortNotFound carrying such a port and its bus, and no
\* client port is registered.
C4_AnyAbsentPortReported ==
    (pc = "returned" /\ result # PlatformSpecific
        /\ \E k \in 1..Len(ScanOrder(config)) : AbsentPositions(ScanOrder(config)[k]) # {}) =>
        /\ \E k \in 1..Len(ScanOrder(config)) : \E i \in AbsentPositions(ScanOrder(config)[k]) :
              result = SystemPortNotFound(ScanOrder(config)[k].bus.system_ports[i],
                                          ScanOrder(config)[k].bus.id)
        /\ registered_ports = {}

\* C4 amended: when the first offending bus of the scan is not empty, spawn
\* returns SystemPortNotFound carrying the first absent port of that bus and the
\* bus's name, or the platform error if the server was unreachable or refused an
\* earlier registration; and after any error return no client port is registered.
C4_FirstAbsentPortReported ==
    pc = "returned" =>
        /\ \A k \in 1..Len(ScanOrder(config)) :
              (FirstOffending(ScanOrder(config), k) /\ ~ListsNoPort(ScanOrder(config)[k])) =>
                  result \in
                    { SystemPortNotFound(
                        ScanOrder(config)[k].bus.system_ports[
                            SmallestOf(AbsentPositions(ScanOrder(config)[k]))],
                        ScanOrder(config)[k].bus.id),
                      PlatformSpecific }
        /\ result # OkResult => registered_ports = {}

\* The absent port came after a port of the same bus that had been registered.
C4_Witness ==
    /\ pc = "returned"
    /\ result.tag = "Err" /\ result.kind = "SystemPortNotFound"
    /\ result.bus = "out_a"
    /\ Len(audio_in_port_names) > 0
    /\ Len(audio_out_port_names) > 0
    /\ registered_ports = {}

(* ---- period helpers ---- *)

RECURSIVE ChannelSum(_, _)
\* The channels of the first n buses of a StreamInfo bus list.
ChannelSum(busses, n) ==
    IF n = 0 THEN 0 ELSE ChannelSum(busses, n - 1) + busses[n].channels

\* The port registered for channel c of bus b: ports are registered bus by bus.
PortOf(busses, b, c) == ChannelSum(busses, b - 1) + c

\* The frame count of the current period: the length of the client's port buffers.
PeriodFrames ==
    IF Len(ps.audio_in) > 0 THEN Len(ps.audio_in[1])
    ELSE IF Len(ps.audio_out) > 0 THEN Len(ps.audio_out[1])
    ELSE 0

\* A callback has run to its end and nothing has started since.
CallbackDone == rt_pc = "idle" /\ rt_control = "Continue"

InputsCollected ==
    \A b \in 1..Len(audio_in_buffers) : \A c \in 1..Len(audio_in_buffers[b].channel_buffers) :
        audio_in_buffers[b].channel_buffers[c].data
            = ps.audio_in[PortOf(stream_info.audio_in, b, c)]

OutputsCleared ==
    /\ \A b \in 1..Len(audio_out_buffers) :
          \A c \in 1..Len(audio_out_buffers[b].channel_buffers) :
              audio_out_buffers[b].channel_buffers[c].data = [i \in 1..PeriodFrames |-> 0]
    /\ \A m \in 1..Len(midi_out_buffers) : midi_out_buffers[m] = <<>>

PortsUnwritten ==
    /\ \A p \in 1..Len(ps.audio_out) : \A i \in 1..Len(ps.audio_out[p]) : ps.audio_out[p][i] = -1
    /\ \A m \in 1..Len(ps.midi_out) : ps.midi_out[m] = <<>>

ValidEvents(events) == SelectSeq(events, LAMBDA e : e.bytes # "malformed")

\* The first n well-formed events, in their original order.
FirstValid(events, n) == SubSeq(ValidEvents(events), 1, Min(n, Len(ValidEvents(events))))

(* ---- C5 ---- *)

\* C5: whatever frame count the input ports report, no input channel buffer ever
\* holds more samples than the maximum period size, and its allocation is the
\* one made at construction (it is never grown inside the callback).
C5_InputWithinCapacity ==
    \A b \in 1..Len(audio_in_buffers) : \A c \in 1..Len(audio_in_buffers[b].channel_buffers) :
        /\ Len(audio_in_buffers[b].channel_buffers[c].data) <= BufferSize
        /\ audio_in_buffers[b].channel_buffers[c].cap = BufferSize

(* ---- C6 ---- *)

\* C6: on a stream of one input bus and one output bus of equal channel count
\* whose process function copies every input channel to the same output channel,
\* after a period of at most the negotiated maximum of frames every output port
\* holds the samples its input port delivered in that period, whatever the
\* earlier periods left behind.
C6_RoundTrip ==
    ( /\ CallbackDone
      /\ app_mode.audio = "copy"
      /\ Len(stream_info.audio_in) = 1 /\ Len(stream_info.audio_out) = 1
      /\ stream_info.audio_in[1].channels = stream_info.audio_out[1].channels
      /\ PeriodFrames <= BufferSize ) =>
        \A p \in 1..stream_info.audio_in[1].channels : ps.audio_out[p] = ps.audio_in[p]

\* A full stereo period whose two channels differ was copied through.
C6_Witness ==
    /\ CallbackDone
    /\ app_mode.audio = "copy"
    /\ Len(stream_info.audio_in) = 1 /\ Len(stream_info.audio_out) = 1
    /\ stream_info.audio_in[1].channels = 2 /\ stream_info.audio_out[1].channels = 2
    /\ PeriodFrames = BufferSize
    /\ ps.audio_in[1] # ps.audio_in[2]
    /\ ps.audio_out[1] = ps.audio_in[1] /\ ps.audio_out[2] = ps.audio_in[2]

(* ---- C7 ---- *)

\* C7: when the application's process function is invoked, every output bus
\* buffer holds exactly the period's frame count of zeros and every MIDI-out
\* buffer is empty, whatever the application left in them the period before.
C7_OutputsClearAtProcess == rt_pc = "app" => OutputsCleared

\* The period before, the application lengthened the output buffers and pushed
\* MIDI-out events.
C7_Witness ==
    /\ rt_pc = "app"
    /\ app_mode.audio = "grow" /\ app_mode.midi > 0
    /\ Len(audio_out_buffers) > 0 /\ Len(midi_out_buffers) > 0
    /\ PeriodFrames > 0
    /\ OutputsCleared

(* ---- C8 ---- *)

\* C8: the MIDI-in buffer the process function sees holds the first MidiCapacity
\* well-formed events the port delivered in this period, in order, and nothing
\* else, also when the port delivered more than that; the period then still
\* completes with the process function invoked.
C8_MidiOverflowKeepsFirst ==
    /\ rt_pc # "aborted"
    /\ (rt_pc \in {"app", "write_back"} \/ CallbackDone) =>
          \A m \in 1..Len(midi_in_buffers) :
              midi_in_buffers[m] = FirstValid(ps.midi_in[m], MidiCapacity)
    /\ CallbackDone => app_calls = 1

\* A port delivered more well-formed events than the buffer holds.
C8_Witness ==
    /\ CallbackDone
    /\ app_calls = 1
    /\ Len(midi_in_buffers) > 0
    /\ Len(ValidEvents(ps.midi_in[1])) > MidiCapacity
    /\ Len(midi_in_buffers[1]) = MidiCapacity

(* ---- C9 ---- *)

\* C9: every callback invokes the process function exactly once: when it is
\* invoked the inputs of the period have been collected, the outputs cleared and
\* no output port written; no output port is written before it has returned;
\* and a callback that has ended has invoked it once, for every stream shape.
C9_ProcessOncePerCallback ==
    /\ rt_pc # "aborted"
    /\ rt_pc = "app" =>
          app_calls = 0 /\ InputsCollected /\ OutputsCleared /\ PortsUnwritten
    /\ rt_pc = "write_back" => app_calls = 1 /\ PortsUnwritten
    /\ CallbackDone => app_calls = 1

\* A callback of a stream with no bus and no controller has ended.
C9_Witness ==
    /\ CallbackDone
    /\ app_calls = 1
    /\ Len(audio_in_buffers) = 0 /\ Len(audio_out_buffers) = 0
    /\ Len(midi_in_buffers) = 0 /\ Len(midi_out_buffers) = 0

(* ---- C10 ---- *)

\* C10: the callback never aborts part-way, and whenever it has ended it has
\* returned Continue: the only time the thread is idle without that is before
\* the first period.
C10_AlwaysContinue ==
    /\ rt_pc # "aborted"
    /\ rt_control \in {"None", "Continue"}
    /\ rt_pc = "idle" =>
          \/ rt_control = "Continue"
          \/ app_calls = 0 /\ app_mode = NoAppMode

\* An oversized period in which the application lengthened the output buffers
\* and the MIDI-out port refused a write.
C10_Witness ==
    /\ CallbackDone
    /\ app_mode.audio = "grow"
    /\ Len(ps.audio_out) > 0 /\ Len(ps.audio_out[1]) > BufferSize
    /\ Len(midi_out_buffers) > 0
    /\ Len(midi_out_buffers[1]) > 0
    /\ Len(ps.midi_out[1]) < Len(midi_out_buffers[1])

(* ---- C11 ---- *)

\* C11: every step that delivers a non-fatal notification (thread init,
\* freewheel, sample rate, client registration, port registration, port rename,
\* ports connected, graph reorder, xrun, latency) leaves the notifier's handler,
\* the count of fatal-error calls and the shutdowns as they were, and what it
\* returns is nothing or Continue, whether the notifier is armed or has fired.
C11_NonFatalLeavesNotifier ==
    [][notification' # notification =>
          /\ notification'.kind \in NonFatalNotifications
          /\ fatal_error_handler' = fatal_error_handler
          /\ fatal_calls' = fatal_calls
          /\ shutdowns' = shutdowns
          /\ notification'.control \in {"Unit", "Continue"}
          /\ notification'.kind \in {"sample_rate", "port_rename", "graph_reorder", "xrun"}
                => notification'.control = "Continue"]_vars

\* An xrun was delivered to a notifier that had fired, after a period had run.
C11_Witness ==
    /\ notification.kind = "xrun"
    /\ notification.control = "Continue"
    /\ shutdowns = 1
    /\ fatal_calls = 1
    /\ fatal_error_handler = "None"
    /\ rt_control = "Continue"

(* ---- C12 ---- *)

\* The handle of a successfully spawned stream has been released.
Released == pc = "returned" /\ result = OkResult /\ ~handle_held

\* The port names an AudioServerInfo lists.
DiscoveredAudioPorts(info) ==
    UNION { SeqRange(info.devices[d].in_ports) \cup SeqRange(info.devices[d].out_ports) :
                d \in 1..Len(info.devices) }

\* The port names a MidiServerInfo lists.
DiscoveredMidiPorts(info) ==
    { info.in_devices[d].name : d \in 1..Len(info.in_devices) }
    \cup { info.out_devices[d].name : d \in 1..Len(info.out_devices) }

\* C12: once the handle of a spawned stream is released the client is not
\* active and none of its ports or connections is left on the server; from then
\* on no step is a process callback, a shutdown or another notification of the
\* stream, and every discovery run from then on lists none of its ports.
C12_ReleaseLeavesNothing ==
    /\ [](Released => ~activated /\ registered_ports = {} /\ connections = {})
    /\ [][Released =>
            /\ rtVars' = rtVars
            /\ notifierVars' = notifierVars
            /\ notification' = notification
            /\ refreshed'.server = "audio" =>
                  DiscoveredAudioPorts(audio_server_info') \cap AllClientPorts = {}
            /\ refreshed'.server = "midi" =>
                  DiscoveredMidiPorts(midi_server_info') \cap AllClientPorts = {}]_vars

\* A stream with audio ports ran a period, was notified, was released, and an
\* audio discovery that reached the server was run afterwards.
C12_Witness ==
    /\ Released
    /\ Len(audio_in_port_names) > 0
    /\ rt_control = "Continue"
    /\ notification.kind = "port_registration"
    /\ refreshed.server = "audio" /\ refreshed.reached
    /\ audio_server_info.available
    /\ DiscoveredAudioPorts(audio_server_info) \cap AllClientPorts = {}

(* ---- C13 ---- *)

\* C13: after a discovery call that could not reach the server, the info it was
\* given has available = false and no device: no audio device after
\* refresh_audio_server, no MIDI in or out device after refresh_midi_server,
\* whatever the info held from earlier discoveries.
C13_UnreachableDiscoveryIsEmpty ==
    /\ (refreshed.server = "audio" /\ ~refreshed.reached) =>
          /\ ~audio_server_info.available
          /\ audio_server_info.devices = <<>>
    /\ (refreshed.server = "midi" /\ ~refreshed.reached) =>
          /\ ~midi_server_info.available
          /\ midi_server_info.in_devices = <<>>
          /\ midi_server_info.out_devices = <<>>

\* refresh_midi_server could not reach the server, on an info that an earlier
\* successful discovery had filled (it left the default input at index 1).
C13_Witness ==
    /\ refreshed.server = "midi"
    /\ ~refreshed.reached
    /\ ~midi_server_info.available
    /\ midi_server_info.in_devices = <<>>
    /\ midi_server_info.default_in_port = 1

(* ---- C14 ---- *)

\* C14: after refresh_audio_server the info is available exactly when the
\* server was reached and lists at least one playback port; then it holds the one
\* device with those ports; otherwise it holds no device, capture ports or not.
C14_AvailableIffPlayback ==
    refreshed.server = "audio" =>
        /\ audio_server_info.available <=>
              (refreshed.reached /\ Len(refreshed.out_ports) > 0)
        /\ audio_server_info.available =>
              /\ Len(audio_server_info.devices) = 1
              /\ audio_server_info.devices[1].out_ports = refreshed.out_ports
              /\ audio_server_info.devices[1].in_ports = refreshed.in_ports
        /\ ~audio_server_info.available => audio_server_info.devices = <<>>

\* The server was reached and lists capture ports but no playback port.
C14_Witness ==
    /\ refreshed.server = "audio"
    /\ refreshed.reached
    /\ Len(refreshed.in_ports) > 0
    /\ Len(refreshed.out_ports) = 0
    /\ ~audio_server_info.available
    /\ audio_server_info.devices = <<>>

(* ---- C15 ---- *)

\* C15: in a discovered device, default_out_port_right is the index of the
\* first output port named system:playback_2 when there is one, else
\* min(1, count - 1); with exactly one output port, whatever its name,
\* default_out_port_left and default_out_port_right are both 0.
C15_DefaultOutRight ==
    (refreshed.server = "audio" /\ audio_server_info.available) =>
        LET device == audio_server_info.devices[1]
            count == Len(device.out_ports)
            seconds == { i \in 1..count : device.out_ports[i] = <<"system:playback", 2>> }
        IN  /\ seconds # {} => device.default_out_port_right = SmallestOf(seconds) - 1
            /\ seconds = {} => device.default_out_port_right = Min(1, count - 1)
            /\ count = 1 =>
                  /\ device.default_out_port_left = 0
                  /\ device.default_out_port_right = 0

\* A device whose only output port is system:playback_2.
C15_Witness ==
    /\ refreshed.server = "audio"
    /\ audio_server_info.available
    /\ audio_server_info.devices[1].out_ports = << <<"system:playback", 2>> >>
    /\ audio_server_info.devices[1].default_out_port_left = 0
    /\ audio_server_info.devices[1].default_out_port_right = 0

(* ---- C16 ---- *)

\* The typed error the specification names for a server that cannot be reached.
ServerUnavailable ==
    [tag |-> "Err", kind |-> "ServerUnavailable", port |-> NoPort, bus |-> ""]

\* C16: once spawn has returned because it could not connect to the server, it
\* returned ServerUnavailable, no port is registered, and neither the init hook
\* nor the process function nor the fatal-error handler was invoked.
C16_UnreachableIsServerUnavailable ==
    (pc = "returned" /\ ~server_reachable) =>
        /\ result = ServerUnavailable
        /\ registered_ports = {}
        /\ init_calls = 0
        /\ app_calls = 0 /\ app_mode = NoAppMode
        /\ fatal_calls = 0

(* ---- C17 ---- *)

\* The ports the configuration asks for: one per system port of every bus, and
\* one per controller when MIDI is enabled.
ConfiguredPortCount(cfg) ==
    ChannelSum([k \in 1..Len(ScanOrder(cfg)) |->
                    [channels |-> Len(ScanOrder(cfg)[k].bus.system_ports)]],
               Len(ScanOrder(cfg)))
    + (IF MidiEnabled(cfg)
       THEN Len(cfg.midi_in_controllers) + Len(cfg.midi_out_controllers) ELSE 0)

\* No process callback has begun and no shutdown has been delivered.
NothingRan ==
    /\ rt_pc = "idle" /\ rt_control = "None" /\ app_calls = 0 /\ ps = NoProcessScope
    /\ shutdowns = 0 /\ fatal_calls = 0
    /\ notification = NoNotification

\* C17: the init hook is invoked at most once, and exactly once in a spawn that
\* succeeds; when it returns every configured port is registered, the client is
\* not active and the StreamInfo it was given is the one spawn returns; until it
\* has returned no process callback, shutdown or other notification can occur;
\* and when the client is activated the per-period buffers exist, one per bus
\* and per controller, sized to the maximum period.
C17_InitOnceBeforeActivation ==
    /\ [](/\ init_calls \in {0, 1}
          /\ result = OkResult => init_calls = 1
          /\ pc = "activate" =>
                /\ init_calls = 1
                /\ ~activated
                /\ registered_ports = AllClientPorts
                /\ Cardinality(registered_ports) = ConfiguredPortCount(config)
          /\ init_calls = 0 =>
                /\ ~activated
                /\ NothingRan
                /\ ~ENABLED (\E scope \in QuietScopes : ProcessBegin(scope))
                /\ ~ENABLED Shutdown
                /\ ~ENABLED (\E kind \in NonFatalNotifications : Notify(kind))
          /\ init_calls = 1 =>
                stream_info = StreamInfo(audio_in_busses, audio_out_busses,
                                         midi_in_controllers, midi_out_controllers)
          /\ (activated /\ NothingRan) =>
                /\ audio_in_buffers = NewAudioBuffers(stream_info.audio_in, BufferSize)
                /\ audio_out_buffers = NewAudioBuffers(stream_info.audio_out, BufferSize)
                /\ midi_in_buffers = NewMidiBuffers(stream_info.midi_in)
                /\ midi_out_buffers = NewMidiBuffers(stream_info.midi_out))
    /\ [][init_calls = 1 => stream_info' = stream_info /\ init_calls' = 1]_vars

\* A spawn of a stream with audio and MIDI ports succeeded and a period ran.
C17_Witness ==
    /\ result = OkResult
    /\ init_calls = 1
    /\ Len(stream_info.audio_in) > 0
    /\ Len(stream_info.midi_in) > 0
    /\ rt_control = "Continue"

(* ---- C18 ---- *)

\* C18: the frame count handed to the process function is the frame count of
\* the period's input ports when the stream has an input bus, the length of the
\* first output port's buffer when it has output buses only, and 0 when it has
\* no audio bus; and when the process function is invoked every output bus
\* buffer, in its frames field and in every channel, has exactly that count.
C18_FrameCount ==
    rt_pc \in {"app", "write_back"} =>
        /\ Len(stream_info.audio_in) > 0 =>
              \A p \in 1..Len(ps.audio_in) : audio_frames = Len(ps.audio_in[p])
        /\ (Len(stream_info.audio_in) = 0 /\ Len(stream_info.audio_out) > 0) =>
              audio_frames = Len(ps.audio_out[1])
        /\ (Len(stream_info.audio_in) = 0 /\ Len(stream_info.audio_out) = 0) =>
              audio_frames = 0
        /\ rt_pc = "app" =>
              \A b \in 1..Len(audio_out_buffers) :
                  /\ audio_out_buffers[b].frames = audio_frames
                  /\ \A c \in 1..Len(audio_out_buffers[b].channel_buffers) :
                        Len(audio_out_buffers[b].channel_buffers[c].data) = audio_frames

\* The process function is invoked on an output-only stream for a period one
\* frame longer than the negotiated maximum.
C18_Witness ==
    /\ rt_pc = "app"
    /\ Len(stream_info.audio_in) = 0
    /\ Len(stream_info.audio_out) > 0
    /\ audio_frames = BufferSize + 1
    /\ audio_out_buffers[1].frames = BufferSize + 1

(* ---- C19 ---- *)

\* C19: the write-back never aborts the period, and once a callback has ended,
\* the port registered for channel c of output bus b (buses in order, then
\* channels) holds the first min(channel length, port length) samples of that
\* channel, followed by what the server had left in the port; the port buffers
\* keep their length.
C19_WriteBackMin ==
    /\ rt_pc # "aborted"
    /\ CallbackDone =>
          \A b \in 1..Len(audio_out_buffers) :
              \A c \in 1..Len(audio_out_buffers[b].channel_buffers) :
                  LET p == PortOf(stream_info.audio_out, b, c)
                      channel == audio_out_buffers[b].channel_buffers[c].data
                      written == Min(Len(channel), Len(ps.audio_out[p]))
                  IN  /\ p <= Len(ps.audio_out)
                      /\ audio_out_port_names[p] = <<stream_info.audio_out[b].id_name, c>>
                      /\ Len(ps.audio_out[p]) = PeriodFrames
                      /\ \A i \in 1..Len(ps.audio_out[p]) :
                            ps.audio_out[p][i] = IF i <= written THEN channel[i] ELSE -1

\* A callback of a stream with two output ports has ended in which the
\* application shortened the channel buffers: the last sample of the second
\* port is what the server had left there.
C19_Witness ==
    /\ CallbackDone
    /\ app_mode.audio = "shrink"
    /\ Len(ps.audio_out) = 2
    /\ PeriodFrames = BufferSize
    /\ ps.audio_out[2][1] = app_mode.value
    /\ ps.audio_out[2][BufferSize] = -1

(* ---- C20 ---- *)

\* The names of the client ports of the configured MIDI controllers.
MidiClientPorts(cfg) ==
    { MidiPortName(cfg.midi_in_controllers[k]) : k \in 1..Len(cfg.midi_in_controllers) }
    \cup { MidiPortName(cfg.midi_out_controllers[k]) : k \in 1..Len(cfg.midi_out_controllers) }

\* C20: when the configuration's MIDI server is absent or is not "Jack", at no
\* point of the spawn is a MIDI port registered or a MIDI auto-connect requested,
\* the StreamInfo has no MIDI controller and the handler no MIDI buffer, even
\* with controllers configured, and a spawn that succeeds has negotiated every
\* audio bus; when it is "Jack", a spawn that succeeds has one MIDI port and
\* one StreamInfo entry per configured controller.
C20_MidiOnlyForJack ==
    /\ config.midi_server # "Jack" =>
          /\ registered_ports \cap MidiClientPorts(config) = {}
          /\ midi_in_port_names = <<>> /\ midi_out_port_names = <<>>
          /\ midi_in_controllers = <<>> /\ midi_out_controllers = <<>>
          /\ \A k \in 1..Len(connect_log) :
                /\ connect_log[k].source \notin MidiClientPorts(config)
                /\ connect_log[k].destination \notin MidiClientPorts(config)
          /\ stream_info.tag = "Some" =>
                stream_info.midi_in = <<>> /\ stream_info.midi_out = <<>>
          /\ midi_in_buffers = <<>> /\ midi_out_buffers = <<>>
          /\ result = OkResult =>
                /\ Len(stream_info.audio_in) = Len(config.audio_in_busses)
                /\ Len(stream_info.audio_out) = Len(config.audio_out_busses)
                /\ Len(connect_log) =
                      Len(audio_in_port_names) + Len(audio_out_port_names)
    /\ (config.midi_server = "Jack" /\ result = OkResult) =>
          /\ Len(stream_info.midi_in) = Len(config.midi_in_controllers)
          /\ Len(stream_info.midi_out) = Len(config.midi_out_controllers)
          /\ handle_held => MidiClientPorts(config) \subseteq registered_ports

\* A spawn succeeded for a configuration that names another backend as MIDI
\* server, with controllers and audio buses configured.
C20_Witness ==
    /\ result = OkResult
    /\ handle_held
    /\ config.midi_server = "Alsa"
    /\ Len(config.midi_in_controllers) > 0
    /\ Len(config.midi_out_controllers) > 0
    /\ Len(stream_info.audio_in) > 0
    /\ Len(stream_info.audio_out) > 0
    /\ registered_ports # {}

(* ---- C21 ---- *)

\* The connections the configuration asks for, in the order of the claim: for
\* every input bus in declaration order and every position, system port ->
\* client port; then for every output bus, client port -> system port; then,
\* when the MIDI server is "Jack", system port -> client port for every MIDI-in
\* controller and client port -> system port for every MIDI-out controller.
ExpectedConnects(cfg) ==
    Flatten([b \in 1..Len(cfg.audio_in_busses) |->
                [i \in 1..Len(cfg.audio_in_busses[b].system_ports) |->
                    [source |-> cfg.audio_in_busses[b].system_ports[i],
                     destination |-> <<cfg.audio_in_busses[b].id, i>>]]])
    \o Flatten([b \in 1..Len(cfg.audio_out_busses) |->
                [i \in 1..Len(cfg.audio_out_busses[b].system_ports) |->
                    [source |-> <<cfg.audio_out_busses[b].id, i>>,
                     destination |-> cfg.audio_out_busses[b].system_ports[i]]]])
    \o (IF cfg.midi_server = "Jack"
        THEN [m \in 1..Len(cfg.midi_in_controllers) |->
                 [source |-> cfg.midi_in_controllers[m].system_port,
                  destination |-> <<cfg.midi_in_controllers[m].id, 0>>]]
             \o [m \in 1..Len(cfg.midi_out_controllers) |->
                 [source |-> <<cfg.midi_out_controllers[m].id, 0>>,
                  destination |-> cfg.midi_out_controllers[m].system_port]]
        ELSE <<>>)

\* C21: no auto-connect is requested before the client is activated; the
\* requests made so far are, in order, the first of the expected connections
\* (input buses, output buses, MIDI-in, MIDI-out, each in declaration order and
\* by position, system port as source for inputs and client port as source
\* for outputs); only the last request made can have been refused; and a spawn
\* that succeeds has made them all, and every connection made is in place while
\* the handle is held.
C21_ConnectOrder ==
    /\ pc \in {"new_client", "audio_in_bus", "audio_in_port", "audio_out_bus",
               "audio_out_port", "midi_in", "midi_out", "init", "activate"} =>
          connect_log = <<>>
    /\ connect_log # <<>> =>
          /\ init_calls = 1
          /\ pc # "returned" => activated
          /\ Len(connect_log) <= Len(ExpectedConnects(config))
          /\ \A k \in 1..Len(connect_log) :
                /\ connect_log[k].source = ExpectedConnects(config)[k].source
                /\ connect_log[k].destination = ExpectedConnects(config)[k].destination
                /\ k < Len(connect_log) => connect_log[k].ok
    /\ result = OkResult =>
          /\ Len(connect_log) = Len(ExpectedConnects(config))
          /\ handle_held =>
                connections = { <<ExpectedConnects(config)[k].source,
                                  ExpectedConnects(config)[k].destination>> :
                                    k \in 1..Len(ExpectedConnects(config)) }

\* A spawn succeeded for a stream with an input bus, an output bus and MIDI
\* controllers in both directions.
C21_Witness ==
    /\ result = OkResult
    /\ handle_held
    /\ Len(config.audio_in_busses) = 1
    /\ Len(config.audio_out_busses) = 1
    /\ config.midi_server = "Jack"
    /\ Len(connect_log) >= 4
    /\ connect_log[Len(connect_log)].source = <<"synth", 0>>

(* ---- C22 ---- *)

\* The buses of one direction of a spawned stream agree with the configuration
\* and with the ports registered for them: every bus has as many channels as it
\* lists system ports, and at least one; there are as many client ports as
\* channels; and channel c of bus b is at the cursor position of the port
\* registered for position c of bus b.
PositionalPorts(configured, busses, port_names) ==
    /\ Len(busses) = Len(configured)
    /\ \A b \in 1..Len(busses) :
          /\ busses[b].channels = Len(configured[b].system_ports)
          /\ busses[b].channels > 0
    /\ Len(port_names) = ChannelSum(busses, Len(busses))
    /\ \A b \in 1..Len(busses) : \A c \in 1..busses[b].channels :
          /\ PortOf(busses, b, c) \in 1..Len(port_names)
          /\ port_names[PortOf(busses, b, c)] = <<busses[b].id_name, c>>

\* The same for the buses and client ports that a spawn which succeeds leaves
\* for the configured buses of one direction.
PositionalPortsSpawned(configured) ==
    PositionalPorts(configured,
                    [b \in 1..Len(configured) |-> AudioBus(configured[b], b - 1)],
                    ClientPortNames(configured))

\* C22: for every stream that spawn returned Ok for, input and output buses
\* have channels equal to their configured system ports, the registered client
\* ports of each direction are as many as the channels of its buses, the port
\* cursor of the callback stays within the registered ports and pairs channel c
\* of bus b with the port registered for position c of bus b, and the handler
\* has one channel buffer per channel; for the configuration at hand and for
\* one whose input bus lists 65536 system ports.
C22_PositionalPorts ==
    /\ (pc = "returned" /\ result = OkResult) =>
          /\ PositionalPorts(config.audio_in_busses, stream_info.audio_in,
                             audio_in_port_names)
          /\ PositionalPorts(config.audio_out_busses, stream_info.audio_out,
                             audio_out_port_names)
          /\ \A b \in 1..Len(audio_in_buffers) :
                Len(audio_in_buffers[b].channel_buffers)
                    = Len(config.audio_in_busses[b].system_ports)
          /\ \A b \in 1..Len(audio_out_buffers) :
                Len(audio_out_buffers[b].channel_buffers)
                    = Len(config.audio_out_busses[b].system_ports)
    /\ PositionalPortsSpawned(<<WideBus>>)

\* The claim's relations on the streams spawned from configurations whose buses
\* list up to MaxBusPorts ports.
C22_SmallStreamsPositional ==
    (pc = "returned" /\ result = OkResult) =>
        /\ PositionalPorts(config.audio_in_busses, stream_info.audio_in, audio_in_port_names)
        /\ PositionalPorts(config.audio_out_busses, stream_info.audio_out,
                           audio_out_port_names)
        /\ PositionalPortsSpawned(config.audio_in_busses)
        /\ PositionalPortsSpawned(config.audio_out_busses)

(* ---- C23 ---- *)

\* What the scan returns at an offending bus: the empty check of the bus comes
\* before the checks of its ports, which are taken in order.
ErrorAt(entry) ==
    IF ListsNoPort(entry)
    THEN NoSystemPortsGiven(entry.bus.id)
    ELSE SystemPortNotFound(entry.bus.system_ports[SmallestOf(AbsentPositions(entry))],
                            entry.bus.id)

ConfigurationError ==
    /\ pc = "returned"
    /\ result.tag = "Err"
    /\ result.kind \in {"NoSystemPortsGiven", "SystemPortNotFound"}

\* C23: whenever spawn has returned a configuration error the stream was never
\* created: the init hook was not invoked, the client is not and was not
\* active, no process callback ran and none can, nothing was asked to be
\* connected, the fatal-error handler was not invoked and no handle is held;
\* the error is that of the first offending bus, input buses scanned before
\* output buses, the empty check of a bus before its port checks; and a spawn
\* that succeeded found no offending bus.
C23_ConfigurationErrorNoStream ==
    /\ ConfigurationError =>
          /\ init_calls = 0
          /\ ~activated
          /\ ~handle_held
          /\ NothingRan
          /\ connect_log = <<>>
          /\ connections = {}
          /\ stream_info = [tag |-> "None"]
          /\ ~ENABLED (\E scope \in QuietScopes : ProcessBegin(scope))
          /\ ~ENABLED Shutdown
          /\ \E k \in 1..Len(ScanOrder(config)) :
                /\ FirstOffending(ScanOrder(config), k)
                /\ result = ErrorAt(ScanOrder(config)[k])
    /\ (pc = "returned" /\ result = OkResult) =>
          \A k \in 1..Len(ScanOrder(config)) : ~Offending(ScanOrder(config)[k])

\* The input bus was reported for its second port, after its first port had
\* been registered, and the empty output bus scanned after it was not.
C23_Witness ==
    /\ ConfigurationError
    /\ result.kind = "SystemPortNotFound"
    /\ result.bus = "in_a"
    /\ Len(audio_in_port_names) = 1
    /\ Len(config.audio_out_busses) = 1
    /\ Len(config.audio_out_busses[1].system_ports) = 0
    /\ init_calls = 0

====
